---- MODULE Spec2Model ----
(***************************************************************************)
(* StreamPump (src/src/test.js:146-236): the adapter that bridges a push   *)
(* source (a Node Readable: `this.stream`) to a pull sink (the             *)
(* ReadableStreamDefaultController handed to start()).                     *)
(*                                                                         *)
(* The model keeps the adapter's fields, the part of the source the        *)
(* adapter touches (its listeners, flowing/readable/destroyed flags and    *)
(* which optional methods it has), the part of the sink the adapter        *)
(* touches (state and queue, from which desiredSize derives), and a log    *)
(* of every call into the adapter and every call the adapter makes.        *)
(***************************************************************************)
EXTENDS Integers, Sequences, FiniteSets, TLC

\* ---------------------------------------------------------------- bounds
MaxData == 2           \* data notifications the source emits in one run
MaxCalls == 2          \* pull() / cancel() calls the consumer makes in one run
DefaultHighWaterMark == 2  \* the source's readableHighWaterMark, in bytes

VARIABLES
  highWaterMark,    \* this.highWaterMark
  accumalatedSize,  \* this.accumalatedSize
  controller,       \* this.controller is set (TRUE) or undefined/deleted (FALSE)
  started,          \* start() has been called (the stream constructor calls it once)
  stream,           \* this.stream: the push source
  sink,             \* the controller's stream: its state and the sizes of its queued chunks
  emitted,          \* chunks the source has emitted while the adapter was open
  enqueued,         \* arguments of the controller.enqueue calls, in order
  errors,           \* arguments of the controller.error calls, in order
  sinkCalls,        \* the calls the adapter has made on the controller, in order
  streamCalls,      \* how often the adapter has called pause, resume, destroy on the source
  owesPull,         \* the last enqueue left desiredSize <= 0 and pull() has not been called since
  threw,            \* an adapter method has let an exception escape
  ndata,            \* data notifications emitted so far
  ncalls,           \* consumer calls made so far
  inflight,         \* the chunk the source has produced but not yet handed to its listeners
  raced             \* cancel() was called on a started adapter while a chunk was in flight

vars == <<highWaterMark, accumalatedSize, controller, started, stream, sink, emitted,
          enqueued, errors, sinkCalls, streamCalls, owesPull, threw, ndata, ncalls,
          inflight, raced>>

\* ---------------------------------------------------------------- values
Events == {"data", "error", "end", "close"}

SourceErrors == {"E1", "E2"}

ConversionError == "Could not create Buffer"

\* chunks a source may hand to the data listener
Chunks ==
  { [kind |-> "Uint8Array", data |-> <<7>>],
    [kind |-> "string",     data |-> <<233>>],
    [kind |-> "Array",      data |-> <<300>>],
    [kind |-> "number",     data |-> <<5>>] }

RECURSIVE FlattenSeq(_)
FlattenSeq(ss) == IF ss = <<>> THEN <<>> ELSE Head(ss) \o FlattenSeq(Tail(ss))

RECURSIVE Sum(_)
Sum(s) == IF s = <<>> THEN 0 ELSE Head(s) + Sum(Tail(s))

\* UTF-8 encoding of one code point below 0x800
Utf8(cp) == IF cp < 128 THEN <<cp>> ELSE <<192 + (cp \div 64), 128 + (cp % 64)>>

\* chunk instanceof Uint8Array ? chunk : Buffer.from(chunk) does not throw
Convertible(chunk) == chunk.kind \in {"Uint8Array", "string", "Array"}

\* chunk instanceof Uint8Array ? chunk : Buffer.from(chunk)
ToBytes(chunk) ==
  CASE chunk.kind = "Uint8Array" -> chunk.data
    [] chunk.kind = "string" -> FlattenSeq([i \in 1..Len(chunk.data) |-> Utf8(chunk.data[i])])
    [] chunk.kind = "Array" -> [i \in 1..Len(chunk.data) |-> chunk.data[i] % 256]
    [] OTHER -> <<>>

\* size(chunk): chunk?.byteLength || 0
size(bytes) == Len(bytes)

\* ---------------------------------------------------------------- sink
\* controller.desiredSize is null once the stream has errored
DesiredSizeIsNull(k) == k.state = "errored"

\* controller.desiredSize: 0 when closed, else highWaterMark minus the queued bytes
DesiredSize(k) == IF k.state = "closed" THEN 0 ELSE highWaterMark - Sum(k.queue)

\* controller.enqueue and controller.close throw unless the stream is readable
SinkThrows(k) == k.state # "readable"

\* controller.error(e) errors a readable stream and does nothing otherwise
SinkError(k) == IF k.state = "readable" THEN [k EXCEPT !.state = "errored"] ELSE k

\* ---------------------------------------------------------------- source
Called(n, op) == [n EXCEPT ![op] = @ + 1]

\* pause(): if (this.stream.pause) this.stream.pause()
pause(s) == IF s.pause THEN [s EXCEPT !.flowing = FALSE] ELSE s

\* pause() that calls this.stream.pause() without testing that it exists
pauseCalls_Unguarded(s, n) == Called(n, "pause")

pauseCalls(s, n) == IF s.pause THEN Called(n, "pause") ELSE n

\* resume(): if (this.stream.readable && this.stream.resume) this.stream.resume()
resume(s) == IF s.readable /\ s.resume THEN [s EXCEPT !.flowing = TRUE] ELSE s

resumeCalls_IgnoresReadable(s, n) == IF s.resume THEN Called(n, "resume") ELSE n

resumeCalls(s, n) == IF s.readable /\ s.resume THEN Called(n, "resume") ELSE n

\* cancel(reason) that forgets the four off() calls
cancel_KeepsListeners(s) ==
  IF s.destroy THEN [s EXCEPT !.destroyed = TRUE, !.readable = FALSE] ELSE s

\* cancel(reason) that forgets off("data", this.enqueue)
cancel_KeepsDataListener(s) ==
  LET d == IF s.destroy THEN [s EXCEPT !.destroyed = TRUE, !.readable = FALSE] ELSE s
  IN [d EXCEPT !.listeners = @ \cap {"data"}]

\* cancel(reason): destroy the source if it can be, then remove the four listeners
cancel(s) ==
  LET d == IF s.destroy THEN [s EXCEPT !.destroyed = TRUE, !.readable = FALSE] ELSE s
  IN [d EXCEPT !.listeners = {}]

cancelCalls(s, n) == IF s.destroy THEN Called(n, "destroy") ELSE n

\* ---------------------------------------------------------------- states
\* the state machine of the adapter, told from what the sink and the source have seen
Count(s, op) == Len(SelectSeq(s, LAMBDA c : c = op))

Terminals == Count(sinkCalls, "close") + Count(sinkCalls, "error")

Idle == ~started

Open == started /\ Terminals = 0 /\ "data" \in stream.listeners

Terminated == started /\ ~Open

\* ---------------------------------------------------------------- Init
Init ==
  /\ highWaterMark = DefaultHighWaterMark
  /\ accumalatedSize = 0
  /\ controller = FALSE
  /\ started = FALSE
  /\ \E p, r, d \in BOOLEAN :
       stream = [readable |-> TRUE, flowing |-> FALSE, destroyed |-> FALSE,
                 listeners |-> {}, fired |-> {},
                 pause |-> p, resume |-> r, destroy |-> d]
  /\ sink = [state |-> "readable", queue |-> <<>>]
  /\ emitted = <<>>
  /\ enqueued = <<>>
  /\ errors = <<>>
  /\ sinkCalls = <<>>
  /\ streamCalls = [op \in {"pause", "resume", "destroy"} |-> 0]
  /\ owesPull = FALSE
  /\ threw = FALSE
  /\ ndata = 0
  /\ ncalls = 0
  /\ inflight = <<>>
  /\ raced = FALSE

\* ---------------------------------------------------------------- consumer calls
\* start(controller) that also calls this.resume()
Start_Resumes ==
  /\ ~started
  /\ started' = TRUE
  /\ controller' = TRUE
  /\ stream' = [stream EXCEPT !.listeners = Events, !.flowing = TRUE]
  /\ streamCalls' = resumeCalls(stream, streamCalls)
  /\ UNCHANGED <<highWaterMark, accumalatedSize, sink, emitted, enqueued, errors,
                 sinkCalls, owesPull, threw, ndata, ncalls>>
  /\ UNCHANGED <<inflight, raced>>

\* start(controller)
Start ==
  /\ ~started
  /\ started' = TRUE
  /\ controller' = TRUE
  /\ stream' = [stream EXCEPT !.listeners = Events, !.flowing = TRUE]
  /\ UNCHANGED <<highWaterMark, accumalatedSize, sink, emitted, enqueued, errors,
                 sinkCalls, streamCalls, owesPull, threw, ndata, ncalls>>
  /\ UNCHANGED <<inflight, raced>>

\* pull()
Pull ==
  /\ ncalls < MaxCalls
  /\ ncalls' = ncalls + 1
  /\ stream' = resume(stream)
  /\ streamCalls' = resumeCalls(stream, streamCalls)
  /\ owesPull' = FALSE
  /\ UNCHANGED <<highWaterMark, accumalatedSize, controller, started, sink, emitted,
                 enqueued, errors, sinkCalls, threw, ndata>>
  /\ UNCHANGED <<inflight, raced>>

\* cancel(reason) that also closes the controller it still holds
Cancel_ClosesController ==
  /\ ncalls < MaxCalls
  /\ ncalls' = ncalls + 1
  /\ stream' = cancel(stream)
  /\ streamCalls' = cancelCalls(stream, streamCalls)
  /\ IF controller
       THEN /\ sinkCalls' = Append(sinkCalls, "close")
            /\ threw' = (threw \/ SinkThrows(sink))
            /\ sink' = IF SinkThrows(sink) THEN sink ELSE [sink EXCEPT !.state = "closed"]
       ELSE UNCHANGED <<sinkCalls, threw, sink>>
  /\ UNCHANGED <<highWaterMark, accumalatedSize, controller, started, emitted,
                 enqueued, errors, owesPull, ndata>>
  /\ raced' = (raced \/ (started /\ inflight # <<>>))
  /\ UNCHANGED inflight

\* cancel(reason)
Cancel ==
  /\ ncalls < MaxCalls
  /\ ncalls' = ncalls + 1
  /\ stream' = cancel(stream)
  /\ streamCalls' = cancelCalls(stream, streamCalls)
  /\ UNCHANGED <<highWaterMark, accumalatedSize, controller, started, sink, emitted,
                 enqueued, errors, sinkCalls, owesPull, threw, ndata>>
  /\ raced' = (raced \/ (started /\ inflight # <<>>))
  /\ UNCHANGED inflight

\* the consumer reads one queued chunk
Read ==
  /\ sink.queue # <<>>
  /\ sink' = [sink EXCEPT !.queue = Tail(@)]
  /\ UNCHANGED <<highWaterMark, accumalatedSize, controller, started, stream, emitted,
                 enqueued, errors, sinkCalls, streamCalls, owesPull, threw, ndata, ncalls>>
  /\ UNCHANGED <<inflight, raced>>

\* ---------------------------------------------------------------- source notifications
\* controller.enqueue that drops a chunk the queue has no room for
SinkEnqueued_DropsWhenFull(q, k, bytes) ==
  IF DesiredSize(k) - size(bytes) < 0 THEN q ELSE Append(q, bytes)

\* this.controller.enqueue(bytes): the chunks handed to the sink so far
SinkEnqueued(q, k, bytes) == Append(q, bytes)

\* The sink after controller.enqueue(bytes).  direct: a read request is
\* pending, so the chunk goes to the reader and the queue stays empty.
SinkEnqueue(k, bytes, direct) ==
  IF direct THEN k ELSE [k EXCEPT !.queue = Append(@, size(bytes))]

\* backpressure test that lets a chunk exactly fill the budget
ShouldPause_Strict(available) == available < 0

\* if (available <= 0) this.pause()
ShouldPause(available) == available <= 0

\* enqueue(chunk), the "data" listener.  reentrant: the sink calls pull()
\* from inside controller.enqueue, before the adapter's own pause().
enqueue(chunk, direct, reentrant) ==
  LET bytes == ToBytes(chunk)
      available == (IF DesiredSizeIsNull(sink) THEN 0 ELSE DesiredSize(sink)) - size(bytes)
      pulled == IF reentrant THEN resume(stream) ELSE stream
      pulledCalls == IF reentrant THEN resumeCalls(stream, streamCalls) ELSE streamCalls
  IN
  IF ~controller
    THEN UNCHANGED <<controller, stream, sink, enqueued, errors, sinkCalls, streamCalls,
                     owesPull>>
  ELSE IF Convertible(chunk) /\ ~SinkThrows(sink)
    THEN /\ sink' = SinkEnqueue(sink, bytes, direct)
         /\ enqueued' = SinkEnqueued(enqueued, sink, bytes)
         /\ sinkCalls' = Append(sinkCalls, "enqueue")
         /\ stream' = IF ShouldPause(available) THEN pause(pulled) ELSE pulled
         /\ streamCalls' = IF ShouldPause(available) THEN pauseCalls(pulled, pulledCalls)
                                            ELSE pulledCalls
         /\ owesPull' = (DesiredSize(sink') <= 0)
         /\ UNCHANGED <<controller, errors>>
  ELSE   \* catch: this.controller.error(new Error(...)); this.cancel()
         /\ sink' = SinkError(sink)
         /\ enqueued' = IF Convertible(chunk) THEN Append(enqueued, bytes) ELSE enqueued
         /\ errors' = Append(errors, ConversionError)
         /\ sinkCalls' = sinkCalls
                           \o (IF Convertible(chunk) THEN <<"enqueue">> ELSE <<>>)
                           \o <<"error">>
         /\ stream' = cancel(stream)
         /\ streamCalls' = cancelCalls(stream, streamCalls)
         /\ UNCHANGED <<controller, owesPull>>

\* the source emits "data": it does so only while flowing (it honours pause;
\* a source without pause flows from start() on), to the listener if one is on
SourceData(chunk, direct, reentrant) ==
  /\ ndata < MaxData
  /\ ndata' = ndata + 1
  /\ stream.flowing
  /\ direct => sink.queue = <<>>
  /\ reentrant => DesiredSize(SinkEnqueue(sink, ToBytes(chunk), direct)) > 0
  /\ emitted' = IF Open THEN Append(emitted, chunk) ELSE emitted
  /\ IF "data" \in stream.listeners
       THEN enqueue(chunk, direct, reentrant)
       ELSE UNCHANGED <<controller, stream, sink, enqueued, errors, sinkCalls,
                        streamCalls, owesPull>>
  /\ UNCHANGED <<highWaterMark, accumalatedSize, started, threw, ncalls>>
  /\ UNCHANGED <<inflight, raced>>

\* the source has produced a chunk; its "data" listeners have yet to be called
SourceBuffer(chunk) ==
  /\ ndata < MaxData
  /\ ndata' = ndata + 1
  /\ stream.flowing
  /\ inflight = <<>>
  /\ inflight' = <<chunk>>
  /\ UNCHANGED <<highWaterMark, accumalatedSize, controller, started, stream, sink, emitted,
                 enqueued, errors, sinkCalls, streamCalls, owesPull, threw, ncalls, raced>>

\* the source hands the chunk in flight to the listeners it has at that moment
SourceDispatch(direct, reentrant) ==
  LET chunk == Head(inflight)
  IN /\ inflight # <<>>
     /\ inflight' = <<>>
     /\ direct => sink.queue = <<>>
     /\ reentrant => DesiredSize(SinkEnqueue(sink, ToBytes(chunk), direct)) > 0
     /\ emitted' = IF Open THEN Append(emitted, chunk) ELSE emitted
     /\ IF "data" \in stream.listeners
          THEN enqueue(chunk, direct, reentrant)
          ELSE UNCHANGED <<controller, stream, sink, enqueued, errors, sinkCalls,
                           streamCalls, owesPull>>
     /\ UNCHANGED <<highWaterMark, accumalatedSize, started, threw, ndata, ncalls, raced>>

\* the source emits a one-shot notification: `once` removes the listener before calling it
Fire(ev) ==
  [stream EXCEPT !.fired = @ \cup {ev}, !.readable = FALSE, !.listeners = @ \ {ev}]

\* error(error) that forgets `delete this.controller`
error_KeepsController(E) ==
  IF controller
    THEN /\ sink' = SinkError(sink)
         /\ errors' = Append(errors, E)
         /\ sinkCalls' = Append(sinkCalls, "error")
         /\ UNCHANGED controller
    ELSE UNCHANGED <<sink, errors, sinkCalls, controller>>

\* error(error) that reports an error of its own instead of the source's
error_WrapsError(E) ==
  IF controller
    THEN /\ sink' = SinkError(sink)
         /\ errors' = Append(errors, "E1")
         /\ sinkCalls' = Append(sinkCalls, "error")
         /\ controller' = FALSE
    ELSE UNCHANGED <<sink, errors, sinkCalls, controller>>

\* error(error), the "error" listener
error(E) ==
  IF controller
    THEN /\ sink' = SinkError(sink)
         /\ errors' = Append(errors, E)
         /\ sinkCalls' = Append(sinkCalls, "error")
         /\ controller' = FALSE
    ELSE UNCHANGED <<sink, errors, sinkCalls, controller>>

\* close() that forgets `delete this.controller`
close_KeepsController ==
  IF controller
    THEN /\ sinkCalls' = Append(sinkCalls, "close")
         /\ IF SinkThrows(sink)
              THEN /\ threw' = TRUE
                   /\ UNCHANGED <<sink, controller>>
              ELSE /\ sink' = [sink EXCEPT !.state = "closed"]
                   /\ UNCHANGED <<controller, threw>>
    ELSE UNCHANGED <<sink, sinkCalls, controller, threw>>

\* close(), the "end" and the "close" listener
close ==
  IF controller
    THEN /\ sinkCalls' = Append(sinkCalls, "close")
         /\ IF SinkThrows(sink)
              THEN /\ threw' = TRUE
                   /\ UNCHANGED <<sink, controller>>
              ELSE /\ sink' = [sink EXCEPT !.state = "closed"]
                   /\ controller' = FALSE
                   /\ UNCHANGED threw
    ELSE UNCHANGED <<sink, sinkCalls, controller, threw>>

\* the source emits "error"
SourceError(E) ==
  /\ "error" \notin stream.fired
  /\ stream' = Fire("error")
  /\ IF "error" \in stream.listeners
       THEN error(E)
       ELSE UNCHANGED <<sink, errors, sinkCalls, controller>>
  /\ UNCHANGED <<highWaterMark, accumalatedSize, started, emitted, enqueued, streamCalls,
                 owesPull, threw, ndata, ncalls>>
  /\ UNCHANGED <<inflight, raced>>

\* the source emits "end"
SourceEnd ==
  /\ "end" \notin stream.fired
  /\ stream' = Fire("end")
  /\ IF "end" \in stream.listeners
       THEN close
       ELSE UNCHANGED <<sink, sinkCalls, controller, threw>>
  /\ UNCHANGED <<highWaterMark, accumalatedSize, started, emitted, enqueued, errors,
                 streamCalls, owesPull, ndata, ncalls>>
  /\ UNCHANGED <<inflight, raced>>

\* the source emits "close"
SourceClose ==
  /\ "close" \notin stream.fired
  /\ stream' = Fire("close")
  /\ IF "close" \in stream.listeners
       THEN close
       ELSE UNCHANGED <<sink, sinkCalls, controller, threw>>
  /\ UNCHANGED <<highWaterMark, accumalatedSize, started, emitted, enqueued, errors,
                 streamCalls, owesPull, ndata, ncalls>>
  /\ UNCHANGED <<inflight, raced>>

\* ---------------------------------------------------------------- specification
Next ==
  \/ Start
  \/ Pull
  \/ Cancel
  \/ Read
  \/ \E chunk \in Chunks, direct, reentrant \in BOOLEAN : SourceData(chunk, direct, reentrant)
  \/ \E E \in SourceErrors : SourceError(E)
  \/ SourceEnd
  \/ SourceClose

Spec == Init /\ [][Next]_vars

\* the runs in which a chunk can be in flight while the consumer calls in
RaceNext ==
  \/ Next
  \/ \E chunk \in Chunks : SourceBuffer(chunk)
  \/ \E direct, reentrant \in BOOLEAN : SourceDispatch(direct, reentrant)

RaceSpec == Init /\ [][RaceNext]_vars

\* ---------------------------------------------------------------- faults
Faults == {"enqueue", "pause"}

\* enqueue(chunk) for a chunk that converts, when a call inside the try block
\* throws: controller.enqueue(bytes) itself, or this.stream.pause() after the
\* chunk went in.  The catch block runs all the same.
enqueueThrows(chunk, direct, fault) ==
  LET bytes == ToBytes(chunk)
      available == (IF DesiredSizeIsNull(sink) THEN 0 ELSE DesiredSize(sink)) - size(bytes)
      paused == IF fault = "pause" THEN Called(streamCalls, "pause") ELSE streamCalls
  IN /\ controller
     /\ Convertible(chunk)
     /\ ~SinkThrows(sink)
     /\ fault = "pause" => (ShouldPause(available) /\ stream.pause)
     /\ sink' = SinkError(IF fault = "pause" THEN SinkEnqueue(sink, bytes, direct) ELSE sink)
     /\ enqueued' = SinkEnqueued(enqueued, sink, bytes)
     /\ errors' = Append(errors, ConversionError)
     /\ sinkCalls' = sinkCalls \o <<"enqueue", "error">>
     /\ stream' = cancel(stream)
     /\ streamCalls' = cancelCalls(stream, paused)
     /\ UNCHANGED <<controller, owesPull>>

\* the source emits "data" and a call of the listener's try block throws
SourceDataThrows(chunk, direct, fault) ==
  /\ ndata < MaxData
  /\ ndata' = ndata + 1
  /\ stream.flowing
  /\ "data" \in stream.listeners
  /\ direct => sink.queue = <<>>
  /\ emitted' = IF Open THEN Append(emitted, chunk) ELSE emitted
  /\ enqueueThrows(chunk, direct, fault)
  /\ UNCHANGED <<highWaterMark, accumalatedSize, started, threw, ncalls>>
  /\ UNCHANGED <<inflight, raced>>

\* the runs in which the sink's enqueue or the source's pause may throw
FaultNext ==
  \/ Next
  \/ \E chunk \in Chunks, direct \in BOOLEAN, fault \in Faults :
       SourceDataThrows(chunk, direct, fault)

FaultSpec == Init /\ [][FaultNext]_vars

\* ---------------------------------------------------------------- a run to completion
\* The run of test.js:22-32: the source emits finitely many convertible chunks
\* and then end, nobody cancels, the consumer reads the body to its end
\* (request.formData()), and the sink calls pull() whenever its desired size
\* is positive.

\* pull() that forgets to call this.resume()
LivePull_ForgetsResume ==
  /\ started
  /\ sink.state = "readable"
  /\ DesiredSize(sink) > 0
  /\ ~stream.flowing
  /\ UNCHANGED vars

\* pull(), called by a sink whose desired size is positive, on a paused source
LivePull ==
  /\ started
  /\ sink.state = "readable"
  /\ DesiredSize(sink) > 0
  /\ ~stream.flowing
  /\ stream' = resume(stream)
  /\ streamCalls' = resumeCalls(stream, streamCalls)
  /\ owesPull' = FALSE
  /\ UNCHANGED <<highWaterMark, accumalatedSize, controller, started, sink, emitted,
                 enqueued, errors, sinkCalls, threw, ndata, ncalls>>
  /\ UNCHANGED <<inflight, raced>>

\* the source emits a chunk of bytes or text, before its end
LiveData ==
  /\ "end" \notin stream.fired
  /\ \E chunk \in {c \in Chunks : Convertible(c)}, direct, reentrant \in BOOLEAN :
       SourceData(chunk, direct, reentrant)

\* the source, flowing, has emitted its last chunk and emits "end"
LiveEnd == stream.flowing /\ SourceEnd

LiveSource == LiveData \/ LiveEnd

LiveNext ==
  \/ Start
  \/ LivePull
  \/ Read
  \/ LiveData
  \/ LiveEnd

LiveSpec ==
  /\ Init
  /\ [][LiveNext]_vars
  /\ WF_vars(Start)
  /\ WF_vars(LivePull)
  /\ WF_vars(Read)
  /\ WF_vars(LiveSource)

\* ---------------------------------------------------------------- views
TypeOK ==
  /\ controller \in BOOLEAN /\ started \in BOOLEAN /\ threw \in BOOLEAN
  /\ stream.listeners \subseteq Events
  /\ sink.state \in {"readable", "closed", "errored"}
  /\ Len(emitted) <= MaxData

\* ---------------------------------------------------------------- claims
Range(s) == {s[i] : i \in 1..Len(s)}

Last(s) == s[Len(s)]

\* C1: once the adapter has called close or error on the sink, it makes no
\* further call on the sink: no step after a terminal call changes the
\* sequence of sink calls, the chunks enqueued or the errors reported.
C1_TerminalIsLast ==
  [][Terminals >= 1 => UNCHANGED <<sinkCalls, enqueued, errors>>]_vars

\* C1 witness: a terminal call was made after a chunk, and all three
\* one-shot notifications and a further data notification came after it.
C1_Witness ==
  /\ Terminals = 1
  /\ Len(sinkCalls) >= 2
  /\ stream.fired = {"error", "end", "close"}
  /\ ndata > Len(emitted)

\* C2 (as stated): a terminated adapter has made exactly one close or error
\* call on the sink, whatever terminated it.
C2_ExactlyOneTerminal == Terminated => Terminals = 1

\* C2 (amended): the sink never receives more than one of {close, error}; a
\* terminated adapter has made exactly one such call unless it was terminated
\* by cancel() while open, in which case it has made none.
C2_AtMostOneTerminal ==
  /\ Terminals <= 1
  /\ Terminated =>
       (Terminals = 0 <=> (controller /\ ConversionError \notin Range(errors)))

\* C2 witness: one run ended by cancel() with no terminal call on the sink.
C2_Witness ==
  /\ Terminated
  /\ Terminals = 0
  /\ streamCalls["destroy"] = 1
  /\ Len(enqueued) >= 1

\* C3: the chunks handed to controller.enqueue are the chunks the source
\* emitted while the adapter was open, converted to bytes, in the same order,
\* none missing and none twice (the chunk that fails conversion ends the run).
C3_OrderPreserved ==
  LET ok == SelectSeq(emitted, Convertible)
  IN /\ Len(enqueued) = Len(ok)
     /\ \A i \in 1..Len(ok) : enqueued[i] = ToBytes(ok[i])
     /\ Count(sinkCalls, "enqueue") = Len(enqueued)

\* C3 witness: a Uint8Array and a string went through, the string as its UTF-8 bytes.
C3_Witness ==
  /\ emitted = << [kind |-> "Uint8Array", data |-> <<7>>],
                  [kind |-> "string", data |-> <<233>>] >>
  /\ enqueued = << <<7>>, <<195, 169>> >>

\* C4: when an enqueue leaves the sink's desired size non-positive, the
\* adapter calls pause on the source (one that has pause) in that same
\* handler, so before any further chunk, and no chunk is enqueued until the
\* sink has called pull().
C4_Backpressure ==
  [][ /\ ( /\ Len(enqueued') > Len(enqueued)
           /\ sink'.state = "readable"
           /\ DesiredSize(sink') <= 0
           /\ stream.pause )
        => ( /\ streamCalls'["pause"] = streamCalls["pause"] + 1
             /\ ~stream'.flowing )
      /\ (owesPull /\ stream.pause) => enqueued' = enqueued ]_vars

\* C4 witness: the first enqueue filled the budget and paused the source; the
\* second enqueue came only after a pull() had resumed it.
C4_Witness ==
  /\ Len(enqueued) = 2
  /\ streamCalls["pause"] = 2
  /\ streamCalls["resume"] = 1
  /\ ncalls = 1
  /\ owesPull

\* C5: once a chunk has failed conversion, the sink has received exactly one
\* error call, carrying the conversion message, as its last call; the source
\* has no listener of the adapter left; and no later data notification is
\* acted on (nothing is enqueued after the chunk that failed).
C5_ConversionFailure ==
  \A i \in 1..Len(emitted) :
    ~Convertible(emitted[i]) =>
      /\ i = Len(emitted)
      /\ Count(sinkCalls, "error") = 1
      /\ errors = <<ConversionError>>
      /\ Last(sinkCalls) = "error"
      /\ stream.listeners = {}
      /\ Len(enqueued) = Len(emitted) - 1

\* C5 witness: a chunk failed conversion and the source emitted data again afterwards.
C5_Witness ==
  /\ emitted # <<>>
  /\ ~Convertible(Last(emitted))
  /\ ndata > Len(emitted)

\* C6: a cancel() called after an earlier cancel(), or after the stream has
\* closed naturally, makes no enqueue, error or close call on the sink and
\* lets no exception escape.
C6_CancelIdempotent ==
  [][ (Cancel /\ started /\ (stream.listeners = {} \/ "close" \in Range(sinkCalls)))
        => (UNCHANGED <<sinkCalls, enqueued, errors>> /\ ~threw') ]_vars

\* C6 witness: the stream closed naturally and cancel() was then called twice.
C6_Witness ==
  /\ sinkCalls = <<"enqueue", "close">>
  /\ streamCalls["destroy"] = 2
  /\ ~threw

\* C7: when cancel() returns, whatever the state it was called in, the source
\* has no listener of the adapter for data, error, end or close.
C7_CancelUnsubscribes == [][Cancel => stream'.listeners = {}]_vars

\* C7 witness: cancel() was called on an open adapter and the listeners are gone.
C7_Witness ==
  /\ started
  /\ Terminals = 0
  /\ ncalls >= 1
  /\ streamCalls["resume"] = 0
  /\ stream.listeners = {}
  /\ stream.fired = {}

\* C8: a source error E delivered to an open adapter makes exactly one sink
\* call, error(E) with that E, after the chunks forwarded so far, and clears
\* the sink handle; once the sink has an error, no later notification adds a
\* sink call.
C8_SourceError ==
  [][ /\ \A E \in SourceErrors :
           (SourceError(E) /\ Open) =>
             /\ sinkCalls' = Append(sinkCalls, "error")
             /\ errors' = Append(errors, E)
             /\ enqueued' = enqueued
             /\ ~controller'
      /\ errors # <<>> => UNCHANGED <<sinkCalls, enqueued, errors>> ]_vars

\* C8 witness: one chunk, then error(E2), then a spurious end and more data.
C8_Witness ==
  /\ sinkCalls = <<"enqueue", "error">>
  /\ errors = <<"E2">>
  /\ ~controller
  /\ "end" \in stream.fired
  /\ ndata = 2

\* C9 (as stated): once terminated, no step makes a call on the sink or on
\* the source or changes a field of the adapter.
C9_TerminatedNoOp ==
  [][ Terminated =>
        UNCHANGED <<sinkCalls, enqueued, errors, streamCalls, controller,
                    highWaterMark, accumalatedSize>> ]_vars

\* C9 (amended): once terminated the adapter stays terminated, and no later
\* notification, pull() or cancel() makes a call on the sink, changes a field
\* of the adapter or pauses the source; cancel() still calls destroy on a
\* source that has it, and pull() still calls resume on a source that is
\* still readable.
C9_TerminatedAbsorbing ==
  [][ Terminated =>
        /\ Terminated'
        /\ UNCHANGED <<sinkCalls, enqueued, errors, controller, highWaterMark,
                       accumalatedSize>>
        /\ streamCalls'["pause"] = streamCalls["pause"]
        /\ streamCalls'["destroy"] # streamCalls["destroy"] => (Cancel /\ stream.destroy)
        /\ streamCalls'["resume"] # streamCalls["resume"]
             => (Pull /\ stream.readable /\ stream.resume) ]_vars

\* C9 witness: the stream closed naturally, then cancel() destroyed the
\* source and pull() was called on the terminated adapter.
C9_Witness ==
  /\ Terminated
  /\ sinkCalls # <<>>
  /\ Last(sinkCalls) = "close"
  /\ streamCalls["destroy"] = 1
  /\ streamCalls["resume"] = 0
  /\ ncalls = 2

\* C10: the sink handle is set exactly when the adapter is open.
C10_HandleIffOpen == controller <=> Open

\* C11: after either fatal condition (a chunk that fails conversion, or a
\* source error) the sink has received exactly one error call and the source
\* has no listener of the adapter left.
C11_FatalReleasesSource ==
  errors # <<>> => (Count(sinkCalls, "error") = 1 /\ stream.listeners = {})

\* C12: the adapter calls resume on the source only inside pull() (called by
\* the consumer, or by the sink from inside controller.enqueue); a started
\* source that is not flowing starts flowing again only by such a pull();
\* pull() resumes a source that is readable and has resume; and pull() on a
\* flowing source makes no sink call and changes neither the sink handle nor
\* the listeners.
C12_ResumeOnlyByPull ==
  [][ LET byPull == \/ Pull
                    \/ \E chunk \in Chunks, direct \in BOOLEAN :
                         SourceData(chunk, direct, TRUE)
      IN /\ streamCalls'["resume"] # streamCalls["resume"] => byPull
         /\ (started /\ ~stream.flowing /\ stream'.flowing) => byPull
         /\ (Pull /\ stream.readable /\ stream.resume)
              => ( /\ stream'.flowing
                   /\ streamCalls'["resume"] = streamCalls["resume"] + 1 )
         /\ (Pull /\ stream.flowing)
              => ( /\ UNCHANGED <<sinkCalls, enqueued, errors, controller>>
                   /\ stream'.listeners = stream.listeners
                   /\ stream'.flowing ) ]_vars

\* C12 witness: an enqueue filled the budget and paused the source, and a
\* later pull() resumed it while the queue was still full.
C12_Witness ==
  /\ Len(enqueued) = 1
  /\ streamCalls["pause"] = 1
  /\ streamCalls["resume"] = 1
  /\ stream.flowing
  /\ ~owesPull
  /\ DesiredSize(sink) <= 0

\* every chunk the source emitted has been enqueued, in order, and close followed
Delivered ==
  /\ "end" \in stream.fired
  /\ Len(enqueued) = ndata
  /\ \A i \in 1..Len(emitted) : enqueued[i] = ToBytes(emitted[i])
  /\ sinkCalls = [i \in 1..ndata |-> "enqueue"] \o <<"close">>

C15_PauseIffNoBudget ==
  [][ LET enqueues == sinkCalls' = Append(sinkCalls, "enqueue")
          d == IF sink.state = "errored" THEN 0 ELSE DesiredSize(sink)
          pauses == streamCalls'["pause"] = streamCalls["pause"] + 1
      IN /\ (enqueues /\ stream.pause)
              => ( /\ pauses <=> d - Len(Last(enqueued')) <= 0
                   /\ pauses => ~stream'.flowing )
         /\ streamCalls'["pause"] # streamCalls["pause"]
              => (enqueues /\ stream.pause /\ pauses) ]_vars

\* C15 witness: with a budget of two bytes, a one-byte chunk did not pause the
\* source and the next one-byte chunk, which filled the budget exactly, did.
C15_Witness ==
  /\ highWaterMark = 2
  /\ sink.queue = <<1, 1>>
  /\ Len(enqueued) = 2
  /\ streamCalls["pause"] = 1
  /\ streamCalls["resume"] = 0
  /\ ~stream.flowing

\* C16: "end" and "close" are the same terminal action: delivered while the
\* adapter is open, either one makes exactly one sink close and clears the
\* handle; delivered when the adapter is not open, either one makes no sink
\* call; the sink is closed at most once whatever the order.
C16_EndCloseSameAction ==
  [][ /\ (SourceEnd \/ SourceClose)
           => IF Open
                THEN /\ sinkCalls' = Append(sinkCalls, "close")
                     /\ sink'.state = "closed"
                     /\ ~controller'
                ELSE UNCHANGED <<sinkCalls, sink, enqueued, errors>>
      /\ Count(sinkCalls', "close") <= 1 ]_vars

\* C16 witness: both "end" and "close" were delivered after a chunk and the
\* sink was closed once.
C16_Witness ==
  /\ {"end", "close"} \subseteq stream.fired
  /\ Len(enqueued) = 1
  /\ sinkCalls = <<"enqueue", "close">>
  /\ sink.state = "closed"

\* C17: on a source that lacks pause, resume or destroy the adapter never
\* calls the missing method and nothing is thrown: the backpressure step
\* leaves a source without pause as it is, pull() leaves a source without
\* resume as it is, cancel() on a source without destroy only removes the four
\* listeners; and the chunks such a source emits while the adapter is open
\* still reach the sink converted, in order, none missing.
C17_MissingCapabilityTolerated ==
  [][ LET ok == SelectSeq(emitted', Convertible)
      IN /\ ~stream.pause
              => ( /\ streamCalls'["pause"] = 0
                   /\ stream.flowing => stream'.flowing )
         /\ ~stream.resume
              => ( /\ streamCalls'["resume"] = 0
                   /\ Pull => stream' = stream )
         /\ ~stream.destroy
              => ( /\ streamCalls'["destroy"] = 0
                   /\ ~stream'.destroyed
                   /\ Cancel => stream' = [stream EXCEPT !.listeners = {}] )
         /\ ~(stream.pause /\ stream.resume /\ stream.destroy)
              => ( /\ ~threw'
                   /\ Cancel => stream'.listeners = {}
                   /\ Len(enqueued') = Len(ok)
                   /\ \A i \in 1..Len(ok) : enqueued'[i] = ToBytes(ok[i]) ) ]_vars

\* C17 witness: a source with none of pause, resume and destroy delivered two
\* chunks past the budget, pull() was called, then cancel() removed the
\* listeners; no method of the source was called.
C17_Witness ==
  /\ ~stream.pause /\ ~stream.resume /\ ~stream.destroy
  /\ enqueued = << <<7>>, <<195, 169>> >>
  /\ DesiredSize(sink) < 0
  /\ ncalls = 2
  /\ ~owesPull
  /\ stream.listeners = {}
  /\ stream.fired = {}
  /\ streamCalls = [op \in {"pause", "resume", "destroy"} |-> 0]

\* C18: the sink is given the conversion-failure error only if a chunk the
\* source emitted could not be converted, and only then is the source
\* cancelled by the data handler: a throw of controller.enqueue or of the
\* source's pause on a convertible chunk is not reported as a conversion
\* failure.
C18_OnlyConversionFails ==
  ConversionError \in Range(errors)
    => \E i \in 1..Len(emitted) : ~Convertible(emitted[i])

\* C19: the adapter's accumalatedSize counter equals the total of the byte
\* lengths of the chunks handed to controller.enqueue so far.
C19_RunningTotal ==
  accumalatedSize = Sum([i \in 1..Len(enqueued) |-> size(enqueued[i])])

====
